---- MODULE Spec2Model ----
(***************************************************************************)
(* Model of zmk_formatter.py: the keymap formatter that finds every        *)
(* "bindings =" list of a file, reshapes it into a 4-row grid and rewrites *)
(* the file with the grids aligned to document-wide column widths.         *)
(*                                                                         *)
(* Text is modelled character by character: a string is a sequence of      *)
(* one-character strings, a file is one such sequence with "\n" in it.     *)
(* Line indices (i, start_idx, next_i) are 0-based as in the Python code,  *)
(* so the line at Python index i is lines[i + 1] here.                     *)
(***************************************************************************)
EXTENDS Integers, Sequences, FiniteSets, TLC

\* ------------------------------------------------------------------------
\* Bounds of the model (not program constants)
\* ------------------------------------------------------------------------
MaxSegs == 2        \* a document is the concatenation of 1..MaxSegs chunks
MaxTokens == 49     \* token count of the largest binding list in the pool
MaxRuns == 2        \* how many times the formatter is run on the same file

\* ------------------------------------------------------------------------
\* Program constants
\* ------------------------------------------------------------------------
PadTo == 42         \* format_bindings_grid pads the token list to 42
TabCol == 8         \* 0-based column of the 'TAB' marker
RowTokens == 12     \* tokens consumed per grid row (idx += 12)
HalfRow == 6        \* tokens per keyboard half (idx:idx+6)

\* ------------------------------------------------------------------------
\* Python str primitives
\* ------------------------------------------------------------------------
WS == {" ", "\t", "\n"}

RECURSIVE lstrip(_)
lstrip(s) == IF s # <<>> /\ Head(s) \in WS THEN lstrip(Tail(s)) ELSE s

RECURSIVE rstrip(_)
rstrip(s) ==
    IF s # <<>> /\ s[Len(s)] \in WS THEN rstrip(SubSeq(s, 1, Len(s) - 1)) ELSE s

strip(s) == lstrip(rstrip(s))

RECURSIVE rstrip_chars(_, _)
rstrip_chars(s, cs) ==
    IF s # <<>> /\ s[Len(s)] \in cs
    THEN rstrip_chars(SubSeq(s, 1, Len(s) - 1), cs)
    ELSE s

endswith(s, c) == s # <<>> /\ s[Len(s)] = c

startswith(s, p) == Len(s) >= Len(p) /\ SubSeq(s, 1, Len(p)) = p

count(s, c) == Cardinality({k \in 1..Len(s) : s[k] = c})

contains(s, p) ==
    \E k \in 1..(Len(s) - Len(p) + 1) : SubSeq(s, k, k + Len(p) - 1) = p

ljust(s, w) == IF Len(s) >= w THEN s ELSE s \o [k \in 1..(w - Len(s)) |-> " "]

\* s.find(c, from): 1-based position of the first c at or after from, else 0
find_char(s, c, from) ==
    IF \E k \in from..Len(s) : s[k] = c
    THEN CHOOSE k \in from..Len(s) :
            s[k] = c /\ \A m \in from..(k - 1) : s[m] # c
    ELSE 0

\* s.split(c): the pieces between occurrences of the character c
RECURSIVE split_from(_, _, _)
split_from(s, c, from) ==
    LET k == find_char(s, c, from)
    IN  IF k = 0 THEN << SubSeq(s, from, Len(s)) >>
        ELSE << SubSeq(s, from, k - 1) >> \o split_from(s, c, k + 1)

split(s, c) == split_from(s, c, 1)

\* f.readlines(): the lines of the text, each keeping its "\n"
RECURSIVE readlines_from(_, _)
readlines_from(text, from) ==
    LET k == find_char(text, "\n", from)
    IN  IF from > Len(text) THEN <<>>
        ELSE IF k = 0 THEN << SubSeq(text, from, Len(text)) >>
        ELSE << SubSeq(text, from, k) >> \o readlines_from(text, k + 1)

readlines(text) == readlines_from(text, 1)

\* '\n'.join(ls)
RECURSIVE join_nl(_)
join_nl(ls) ==
    IF ls = <<>> THEN <<>>
    ELSE IF Len(ls) = 1 THEN ls[1]
    ELSE ls[1] \o <<"\n">> \o join_nl(Tail(ls))

\* re.sub(r'//.*$', '', line): cut from the first "//" to the end of line
sub_comment(line) ==
    LET starts == {k \in 1..(Len(line) - 1) : line[k] = "/" /\ line[k + 1] = "/"}
    IN  IF starts = {} THEN line
        ELSE SubSeq(line, 1, (CHOOSE k \in starts : \A m \in starts : k <= m) - 1)

\* keycodes[a:b] (Python slice, clipped to the list)
slice(s, a, b) ==
    LET hi == IF b > Len(s) THEN Len(s) ELSE b
    IN  IF a >= hi THEN <<>> ELSE SubSeq(s, a + 1, hi)

\* ------------------------------------------------------------------------
\* parse_bindings_block
\* ------------------------------------------------------------------------
MARKER == <<"b", "i", "n", "d", "i", "n", "g", "s", " ", "=">>
TERMINATOR == <<">", ";">>
TAB == <<"T", "A", "B">>

\* first loop: advance to the line whose stripped text ends with '<'
RECURSIVE find_open(_, _)
find_open(lines, i) ==
    IF i < Len(lines) /\ ~endswith(strip(lines[i + 1]), "<")
    THEN find_open(lines, i + 1)
    ELSE i

\* second loop: accumulate content while the bracket balance is positive
RECURSIVE accumulate(_, _, _, _)
accumulate(lines, i, brace_count, content) ==
    IF i < Len(lines) /\ brace_count > 0
    THEN LET raw == strip(lines[i + 1])
             bc == brace_count + count(raw, "<") - count(raw, ">")
             line == strip(sub_comment(raw))
         IN  accumulate(lines, i + 1, bc,
                        IF line # <<>> /\ ~startswith(line, TERMINATOR)
                        THEN content \o <<" ">> \o line
                        ELSE content)
    ELSE [content |-> content, i |-> i, brace_count |-> brace_count]

\* ['&' + part.strip() for part in content.split('&') if part.strip()]
nonempty(p) == p # <<>>

keycodes_of(parts) ==
    LET kept == SelectSeq([k \in 1..Len(parts) |-> strip(parts[k])], nonempty)
    IN  [k \in 1..Len(kept) |-> <<"&">> \o kept[k]]

parse_bindings_block(lines, start_idx) ==
    LET acc == accumulate(lines, find_open(lines, start_idx) + 1, 1, <<>>)
        content == rstrip_chars(strip(acc.content), {">", ";"})
    IN  [keycodes |-> keycodes_of(split(content, "&")), next_i |-> acc.i]

\* ------------------------------------------------------------------------
\* format_bindings_grid
\* ------------------------------------------------------------------------
pad_keycodes(keycodes) ==
    IF Len(keycodes) < PadTo
    THEN keycodes \o [k \in 1..(PadTo - Len(keycodes)) |-> <<>>]
    ELSE keycodes

grid_row123(kc, idx) ==
    slice(kc, idx, idx + HalfRow) \o << <<>>, <<>>, TAB, <<>>, <<>> >>
        \o slice(kc, idx + HalfRow, idx + RowTokens)

grid_row4(kc, idx) ==
    << <<>>, <<>> >> \o slice(kc, idx, idx + HalfRow) \o <<TAB>>
        \o slice(kc, idx + HalfRow, idx + RowTokens) \o << <<>>, <<>> >>

format_bindings_grid(keycodes) ==
    LET kc == pad_keycodes(keycodes)
    IN  << grid_row123(kc, 0), grid_row123(kc, RowTokens),
           grid_row123(kc, 2 * RowTokens), grid_row4(kc, 3 * RowTokens) >>

\* ------------------------------------------------------------------------
\* calculate_global_widths
\* ------------------------------------------------------------------------
RECURSIVE max_of(_)
max_of(S) ==
    IF S = {} THEN 0
    ELSE LET x == CHOOSE y \in S : TRUE
             m == max_of(S \ {x})
         IN  IF x > m THEN x ELSE m

\* max len over the non-empty, non-TAB cells of column col (0-based)
column_max_width(all_grids, col) ==
    max_of({ Len(all_grids[g][r][col + 1]) :
             <<g, r>> \in { gr \in (1..Len(all_grids)) \X (1..4) :
                 /\ col < Len(all_grids[gr[1]][gr[2]])
                 /\ all_grids[gr[1]][gr[2]][col + 1] # <<>>
                 /\ all_grids[gr[1]][gr[2]][col + 1] # TAB } })

column_width(all_grids, col) ==
    IF col = TabCol THEN 0
    ELSE LET max_width == column_max_width(all_grids, col)
         IN  IF max_width > 0 THEN max_width + 1 ELSE 1

\* a per-block variant: the widths of the first grid alone
first_grid_widths(all_grids) ==
    IF all_grids = <<>> THEN <<>>
    ELSE [c \in 1..Len(all_grids[1][1]) |-> column_width(<<all_grids[1]>>, c - 1)]

calculate_global_widths(all_grids) ==
    IF all_grids = <<>> THEN <<>>
    ELSE [c \in 1..Len(all_grids[1][1]) |-> column_width(all_grids, c - 1)]

\* ------------------------------------------------------------------------
\* format_grid_to_lines
\* ------------------------------------------------------------------------
\* the text one cell contributes to its line (col is 0-based)
format_cell(cell, col, widths) ==
    IF col = TabCol THEN <<>>
    ELSE IF col = TabCol + 1 THEN <<"\t">> \o ljust(cell, widths[col + 1])
    ELSE ljust(cell, widths[col + 1])

RECURSIVE join_cells(_, _, _)
join_cells(row, col, widths) ==
    IF col >= Len(row) THEN <<>>
    ELSE format_cell(row[col + 1], col, widths) \o join_cells(row, col + 1, widths)

format_row(row, widths) == rstrip(join_cells(row, 0, widths))

format_grid_to_lines(grid, widths) ==
    [r \in 1..Len(grid) |-> format_row(grid[r], widths)]

\* a variant that keeps every rendered row, blank or not
keep_all_rows(ls) == ls

\* the rendered rows the rewriter keeps: `line for line in ... if line.strip()`
RECURSIVE nonblank(_)
nonblank(ls) ==
    IF ls = <<>> THEN <<>>
    ELSE (IF strip(Head(ls)) # <<>> THEN <<Head(ls)>> ELSE <<>>)
         \o nonblank(Tail(ls))

\* the fixed closing line '            >;'
CLOSING == [k \in 1..12 |-> " "] \o TERMINATOR

\* ------------------------------------------------------------------------
\* Input documents: concatenations of 1..MaxSegs chunks of keymap text
\* ------------------------------------------------------------------------
TOKENS ==
    << <<"&", "a">>, <<"&", "b", "b">>, <<"&", "k", " ", "c">>,
       <<"&", "d">>, <<"&", "e", "e", "e">> >>

Tok(k) == TOKENS[((k - 1) % Len(TOKENS)) + 1]

\* tokens from..to on one indented line, RowTokens tokens per source line
RECURSIVE tok_line(_, _, _)
tok_line(from, to, shift) ==
    IF from > to THEN <<"\n">>
    ELSE <<" ">> \o Tok(from + shift) \o tok_line(from + 1, to, shift)

RECURSIVE tok_lines(_, _, _)
tok_lines(from, n, shift) ==
    IF from > n THEN <<>>
    ELSE LET to == IF from + RowTokens - 1 > n THEN n ELSE from + RowTokens - 1
         IN  tok_line(from, to, shift) \o tok_lines(to + 1, n, shift)

HEADER == <<" ", " ">> \o MARKER \o <<" ", "<", "\n">>
ENDLIST == <<" ", " ", ">", ";", "\n">>
CLOSE_NODE == <<"}", ";", "\n">>

block_text(n, shift) == HEADER \o tok_lines(1, n, shift) \o ENDLIST

node(name, body) == name \o <<" ", "{", "\n">> \o body \o CLOSE_NODE

KEYMAP == <<"k", "e", "y", "m", "a", "p">>
MACROS == <<"m", "a", "c", "r", "o", "s">>
COMBOS == <<"c", "o", "m", "b", "o", "s">>

\* keymap { l { bindings = < n tokens >; }; };
layer_doc(n, shift) == node(KEYMAP, node(<<"l">>, block_text(n, shift)))

\* keymap { l { ...2 tokens... }; m { ...3 tokens, other texts... }; };
two_layers ==
    node(KEYMAP, node(<<"l">>, block_text(2, 0)) \o node(<<"m">>, block_text(3, 2)))

\* macros { m { bindings = < &a &bb >; }; };
macro_doc == node(MACROS, node(<<"m">>, block_text(2, 0)))

\* combos { c { bindings = <&d>; }; };   (list opened and closed on one line)
combo_doc ==
    node(COMBOS, node(<<"c">>,
        <<" ">> \o MARKER \o <<" ", "<", "&", "d", ">", ";", "\n">>))

\* a passthrough line with trailing blanks, and one without a final newline
text_line == <<"x", " ", "\t", "\n">>
text_no_newline == <<"y">>

\* a file cut off inside a layer's list: keymap { l { label; bindings = < &a
unterminated ==
    KEYMAP \o <<" ", "{", "\n", "l", " ", "{", "\n", "x", ";", "\n">>
           \o HEADER \o <<"&", "a", "\n">>

\* a layer whose list has no tokens
empty_list == node(KEYMAP, node(<<"l">>, HEADER \o ENDLIST))

\* a layer whose first token line carries a comment holding '>' and '&'
commented ==
    node(KEYMAP, node(<<"l">>,
        HEADER \o <<"&", "a", " ", "/", "/", " ", "-", ">", " ", "&", "z", "\n">>
               \o <<"&", "b", "b", "\n">> \o ENDLIST))

Chunks ==
    { layer_doc(3, 2), layer_doc(10, 0), layer_doc(MaxTokens - 1, 1),
      layer_doc(MaxTokens, 0), two_layers,
      macro_doc, combo_doc, text_line, text_no_newline, unterminated,
      empty_list, commented }

RECURSIVE Docs(_)
Docs(n) ==
    IF n = 1 THEN Chunks
    ELSE LET shorter == Docs(n - 1)
         IN  shorter \cup { d \o c : d \in shorter, c \in Chunks }

\* ------------------------------------------------------------------------
\* format_zmk_file as a state machine
\* ------------------------------------------------------------------------
VARIABLES
    disk,            \* content of the file at file_path
    disk_before,     \* content of the file when the current run started
    run,             \* number of the current run, 1..MaxRuns
    prev_ret,        \* what the previous run returned ("none" in run 1)
    pc,              \* position in format_zmk_file
    ret,             \* return value of the current run: "none", "True", "False"
    lines,           \* lines = f.readlines()
    i,               \* the loop index i of the scan and of the output loop
    block_count,     \* candidates seen by the scan
    bindings_blocks, \* (start, next_i, header, grid) per recorded block
    global_widths,   \* result of calculate_global_widths
    output_lines,    \* the output being built
    block_idx,       \* next block to emit
    writes,          \* how many times this run has written the file
    passed           \* indices of the input lines emitted by the else branch

vars == << disk, disk_before, run, prev_ret, pc, ret, lines, i, block_count,
           bindings_blocks, global_widths, output_lines, block_idx, writes,
           passed >>

Returned == {"ret_read_error", "ret_no_blocks", "ret_written", "ret_write_error"}

\* all_grids holds the grid of every recorded block, in the same order
all_grids == [k \in 1..Len(bindings_blocks) |-> bindings_blocks[k].grid]

\* the locals of format_zmk_file before its first statement
locals_reset ==
    /\ lines = <<>>
    /\ i = 0
    /\ block_count = 0
    /\ bindings_blocks = <<>>
    /\ global_widths = <<>>
    /\ output_lines = <<>>
    /\ block_idx = 0
    /\ writes = 0
    /\ passed = {}
    /\ ret = "none"
    /\ pc = "read"

Init ==
    /\ disk \in Docs(MaxSegs)
    /\ disk_before = disk
    /\ run = 1
    /\ prev_ret = "none"
    /\ locals_reset

\* lines 149-153: the file is read
ReadFile ==
    /\ pc = "read"
    /\ lines' = readlines(disk)
    /\ pc' = "scan"
    /\ UNCHANGED << disk, disk_before, run, prev_ret, ret, i, block_count,
                    bindings_blocks, global_widths, output_lines, block_idx,
                    writes, passed >>

\* lines 154-165: the read raises, the run returns False
ReadError ==
    /\ pc = "read"
    /\ ret' = "False"
    /\ pc' = "ret_read_error"
    /\ UNCHANGED << disk, disk_before, run, prev_ret, lines, i, block_count,
                    bindings_blocks, global_widths, output_lines, block_idx,
                    writes, passed >>

\* lines 175-188: a line holding 'bindings =' is parsed as a block
ScanBindings ==
    /\ pc = "scan"
    /\ i < Len(lines)
    /\ contains(lines[i + 1], MARKER)
    /\ block_count' = block_count + 1
    /\ LET parsed == parse_bindings_block(lines, i)
       IN  /\ bindings_blocks' =
                IF parsed.keycodes # <<>>
                THEN Append(bindings_blocks,
                            [start |-> i, next_i |-> parsed.next_i,
                             header |-> rstrip(lines[i + 1]),
                             grid |-> format_bindings_grid(parsed.keycodes)])
                ELSE bindings_blocks
           /\ i' = parsed.next_i
    /\ UNCHANGED << disk, disk_before, run, prev_ret, pc, ret, lines,
                    global_widths, output_lines, block_idx, writes, passed >>

\* lines 192-193: any other line is stepped over
ScanOther ==
    /\ pc = "scan"
    /\ i < Len(lines)
    /\ ~contains(lines[i + 1], MARKER)
    /\ i' = i + 1
    /\ UNCHANGED << disk, disk_before, run, prev_ret, pc, ret, lines,
                    block_count, bindings_blocks, global_widths, output_lines,
                    block_idx, writes, passed >>

\* a variant without the early return
never_no_blocks(blocks) == FALSE

\* line 195: `if not bindings_blocks`
no_blocks_found(blocks) == blocks = <<>>

\* lines 195-198: nothing recorded, the run returns True without writing
NoBlocks ==
    /\ pc = "scan"
    /\ i >= Len(lines)
    /\ no_blocks_found(bindings_blocks)
    /\ ret' = "True"
    /\ pc' = "ret_no_blocks"
    /\ UNCHANGED << disk, disk_before, run, prev_ret, lines, i, block_count,
                    bindings_blocks, global_widths, output_lines, block_idx,
                    writes, passed >>

\* lines 200-215: the widths are computed and the output loop is set up
CalcWidths ==
    /\ pc = "scan"
    /\ i >= Len(lines)
    /\ ~no_blocks_found(bindings_blocks)
    /\ global_widths' = calculate_global_widths(all_grids)
    /\ output_lines' = <<>>
    /\ i' = 0
    /\ block_idx' = 0
    /\ pc' = "render"
    /\ UNCHANGED << disk, disk_before, run, prev_ret, ret, lines, block_count,
                    bindings_blocks, writes, passed >>

\* lines 219-233: at a block's start line the block is emitted and skipped
RenderBlock ==
    /\ pc = "render"
    /\ i < Len(lines)
    /\ block_idx < Len(bindings_blocks)
    /\ i = bindings_blocks[block_idx + 1].start
    /\ LET b == bindings_blocks[block_idx + 1]
       IN  /\ output_lines' =
                Append(output_lines, b.header)
                    \o nonblank(format_grid_to_lines(b.grid, global_widths))
                    \o <<CLOSING>>
           /\ i' = b.next_i
    /\ block_idx' = block_idx + 1
    /\ UNCHANGED << disk, disk_before, run, prev_ret, pc, ret, lines,
                    block_count, bindings_blocks, global_widths, writes,
                    passed >>

\* lines 234-236: any other line is emitted right-stripped
RenderLine ==
    /\ pc = "render"
    /\ i < Len(lines)
    /\ ~(block_idx < Len(bindings_blocks)
         /\ i = bindings_blocks[block_idx + 1].start)
    /\ output_lines' = Append(output_lines, rstrip(lines[i + 1]))
    /\ passed' = passed \cup {i}
    /\ i' = i + 1
    /\ UNCHANGED << disk, disk_before, run, prev_ret, pc, ret, lines,
                    block_count, bindings_blocks, global_widths, block_idx,
                    writes >>

\* lines 245-258: the whole output replaces the file, the run returns True
WriteFile ==
    /\ pc = "render"
    /\ i >= Len(lines)
    /\ disk' = join_nl(output_lines) \o <<"\n">>
    /\ writes' = writes + 1
    /\ ret' = "True"
    /\ pc' = "ret_written"
    /\ UNCHANGED << disk_before, run, prev_ret, lines, i, block_count,
                    bindings_blocks, global_widths, output_lines, block_idx,
                    passed >>

\* lines 259-261: opening the file for writing is refused, the run returns False
WriteError ==
    /\ pc = "render"
    /\ i >= Len(lines)
    /\ ret' = "False"
    /\ pc' = "ret_write_error"
    /\ UNCHANGED << disk, disk_before, run, prev_ret, lines, i, block_count,
                    bindings_blocks, global_widths, output_lines, block_idx,
                    writes, passed >>

\* lines 302-304: the formatter is run again on the file as it now is
Rerun ==
    /\ pc \in Returned
    /\ run < MaxRuns
    /\ run' = run + 1
    /\ prev_ret' = ret
    /\ disk_before' = disk
    /\ lines' = <<>>
    /\ i' = 0
    /\ block_count' = 0
    /\ bindings_blocks' = <<>>
    /\ global_widths' = <<>>
    /\ output_lines' = <<>>
    /\ block_idx' = 0
    /\ writes' = 0
    /\ passed' = {}
    /\ ret' = "none"
    /\ pc' = "read"
    /\ UNCHANGED disk

Next ==
    \/ ReadFile
    \/ ReadError
    \/ ScanBindings
    \/ ScanOther
    \/ NoBlocks
    \/ CalcWidths
    \/ RenderBlock
    \/ RenderLine
    \/ WriteFile
    \/ WriteError
    \/ Rerun

Spec == Init /\ [][Next]_vars

\* ------------------------------------------------------------------------
\* Vocabulary of the properties
\* ------------------------------------------------------------------------
Scanned == pc \in {"scan", "render", "ret_no_blocks", "ret_written", "ret_write_error"}
Rendering == pc \in {"render", "ret_written", "ret_write_error"}

IsToken(cell) == cell # <<>> /\ cell # TAB

\* the 0-based indices of the lines that hold the declaration marker
Declarations(ls) == {d \in 0..(Len(ls) - 1) : contains(ls[d + 1], MARKER)}

RECURSIVE sum_over(_, _, _)
sum_over(f(_), from, to) ==
    IF from > to THEN 0 ELSE f(from) + sum_over(f, from + 1, to)

\* ---- C1 -----------------------------------------------------------------
\* C1: idempotence. When a run succeeds and the formatter is run again on the
\* content that run left, the second successful run leaves the file
\* byte-identical.
C1_Idempotent ==
    (run >= 2 /\ prev_ret = "True" /\ pc \in Returned /\ ret = "True")
        => disk = disk_before

\* ---- C2 -----------------------------------------------------------------
\* the tokens read back from the rows the rewriter emits for a block
rendered_tokens(b) ==
    LET rows == nonblank(format_grid_to_lines(b.grid, global_widths))
        text(r) == <<" ">> \o rows[r]
        RECURSIVE cat(_)
        cat(r) == IF r > Len(rows) THEN <<>> ELSE text(r) \o cat(r + 1)
    IN  keycodes_of(split(cat(1), "&"))

\* C2: content preservation. For every formatted block the tokens read back
\* from its rendered rows, top to bottom and left to right, are exactly the
\* tokens extracted from the original list, in the same order, whatever the
\* token count is.
C2_TokensPreserved ==
    Rendering =>
        \A k \in 1..Len(bindings_blocks) :
            rendered_tokens(bindings_blocks[k])
                = parse_bindings_block(lines, bindings_blocks[k].start).keycodes

\* ---- C3 -----------------------------------------------------------------
brace_delta(ls, m) == count(ls[m + 1], "{") - count(ls[m + 1], "}")

\* the line that opens the node enclosing line k: walking backward from k,
\* the first line at which more braces have been opened than closed; -1 if none
enclosing_open(ls, k) ==
    LET bal(j) == sum_over(LAMBDA m : brace_delta(ls, m), j, k - 1)
        opens == {j \in 0..(k - 1) : bal(j) > 0}
    IN  IF opens = {} THEN -1
        ELSE CHOOSE j \in opens : \A m \in opens : m <= j

\* line k sits in a node that sits directly in the layer-container section
in_layer(ls, k) ==
    LET n == enclosing_open(ls, k)
        c == IF n < 0 THEN -1 ELSE enclosing_open(ls, n)
    IN  /\ c >= 0
        /\ contains(ls[c + 1], KEYMAP)
        /\ contains(ls[c + 1], <<"{">>)

\* C3: classifier correctness. Only a binding list of a layer node is
\* recorded as a block; a declaration in any other container is emitted by
\* the passthrough branch.
C3_OnlyLayerBlocks ==
    Rendering =>
        /\ \A k \in 1..Len(bindings_blocks) :
              in_layer(lines, bindings_blocks[k].start)
        /\ pc = "ret_written" =>
              \A d \in Declarations(lines) : ~in_layer(lines, d) => d \in passed

\* ---- C4 -----------------------------------------------------------------
angle_delta(ls, m) == count(ls[m + 1], "<") - count(ls[m + 1], ">")
angle_opens(ls, m) == count(ls[m + 1], "<")

\* the line that closes the list declared on line d: the first line from d on
\* at which the list has been opened and its bracket balance is zero again;
\* the last line of the file when there is none
list_end(ls, d) ==
    LET closed == {e \in d..(Len(ls) - 1) :
                      /\ sum_over(LAMBDA m : angle_opens(ls, m), d, e) > 0
                      /\ sum_over(LAMBDA m : angle_delta(ls, m), d, e) = 0}
    IN  IF closed = {} THEN Len(ls) - 1
        ELSE CHOOSE e \in closed : \A m \in closed : e <= m

in_list(ls, k) == \E d \in Declarations(ls) : d <= k /\ k <= list_end(ls, d)

\* C4: lines outside binding lists are preserved. Every input line that is
\* not between a declaration line and its list's closing line is emitted by
\* the passthrough branch (once, right-trimmed, in input order).
C4_OutsideLinesPreserved ==
    pc = "ret_written" =>
        \A k \in 0..(Len(lines) - 1) : ~in_list(lines, k) => k \in passed

\* ---- C5 -----------------------------------------------------------------
\* the forward scan from declaration d runs into the end of the file
scan_hits_eof(ls, d) ==
    LET open == find_open(ls, d)
    IN  \/ open >= Len(ls)
        \/ accumulate(ls, open + 1, 1, <<>>).brace_count > 0

\* C5: a malformed block rejects the whole file. When the scan of some
\* declaration reaches the end of the file before the opening bracket or
\* before the closing one, the run returns False and writes nothing.
C5_MalformedRejected ==
    (pc \in Returned /\ pc # "ret_read_error"
        /\ \E d \in Declarations(lines) : scan_hits_eof(lines, d))
        => (ret = "False" /\ writes = 0 /\ disk = disk_before)

\* ---- C6 -----------------------------------------------------------------
\* where column c starts in a rendered line, from the widths alone: the widths
\* of the columns before it, plus the tab written in front of column TabCol + 1
col_offset(c, widths) ==
    sum_over(LAMBDA m : IF m = TabCol THEN 0 ELSE widths[m + 1], 0, c - 1)
        + (IF c > TabCol THEN 1 ELSE 0)

row_aligned(row, widths) ==
    LET line == format_row(row, widths)
    IN  \A c \in 0..(Len(row) - 1) :
            IsToken(row[c + 1]) =>
                LET off == col_offset(c, widths)
                IN  /\ off + Len(row[c + 1]) <= Len(line)
                    /\ SubSeq(line, off + 1, off + Len(row[c + 1])) = row[c + 1]

\* C6: global alignment. In every rendered row of every block of the
\* document, the token of column c starts at the offset fixed by c and the
\* document-wide widths.
C6_GlobalAlignment ==
    Rendering =>
        \A k \in 1..Len(bindings_blocks) :
            \A r \in 1..Len(bindings_blocks[k].grid) :
                row_aligned(bindings_blocks[k].grid[r], global_widths)

\* two blocks hold tokens of different lengths in one column that is followed
\* by another token, and they have been rendered
C6_Witness ==
    /\ pc = "ret_written"
    /\ \E k1, k2 \in 1..Len(bindings_blocks) :
          \E c \in 0..(HalfRow - 2) :
              /\ IsToken(bindings_blocks[k1].grid[1][c + 1])
              /\ IsToken(bindings_blocks[k2].grid[1][c + 1])
              /\ IsToken(bindings_blocks[k2].grid[1][c + 2])
              /\ Len(bindings_blocks[k1].grid[1][c + 1])
                    < Len(bindings_blocks[k2].grid[1][c + 1])

\* ---- C7 -----------------------------------------------------------------
\* the rows of a grid that hold at least one token
token_rows(grid) ==
    {r \in 1..Len(grid) : \E c \in 1..Len(grid[r]) : IsToken(grid[r][c])}

\* what the step that emits a block has appended to the output
emitted == SubSeq(output_lines', Len(output_lines) + 1, Len(output_lines'))

C8_NoBlocksNoWrite ==
    (pc \in Returned /\ pc # "ret_read_error"
        /\ (bindings_blocks = <<>> \/ Declarations(lines) = {}))
        => (ret = "True" /\ writes = 0 /\ disk = disk_before)

\* a run has returned after a scan whose only candidates yielded no token
C8_Witness ==
    /\ pc = "ret_no_blocks"
    /\ block_count > 0
    /\ bindings_blocks = <<>>

\* ---- C9 -----------------------------------------------------------------
\* C9: grid shape. Every grid has 4 rows of one common length with the gap
\* marker in the same column, and every block of a document has that shape.
C9_GridShape ==
    \A k \in 1..Len(bindings_blocks) :
        LET grid == bindings_blocks[k].grid
        IN  /\ Len(grid) = 4
            /\ \A r \in 1..Len(grid) :
                  /\ Len(grid[r]) = Len(bindings_blocks[1].grid[1])
                  /\ grid[r][TabCol + 1] = TAB

\* ---- C10 ----------------------------------------------------------------
\* the same line with other text after its first "//"
recomment(line) ==
    IF sub_comment(line) = line THEN line
    ELSE sub_comment(line) \o <<"/", "/", " ", "n", "o", "t", "e", "\n">>

recommented(ls) == [k \in 1..Len(ls) |-> recomment(ls[k])]

\* C10: comment text does not influence tokenizing. A document and the
\* document that differs from it only in the text after the first "//" of
\* its lines give the same tokens and the same end index.
C10_CommentsIgnored ==
    (pc = "scan" /\ i < Len(lines) /\ contains(lines[i + 1], MARKER))
        => parse_bindings_block(lines, i)
              = parse_bindings_block(recommented(lines), i)

====
